---- MODULE Spec2Model ----
(***************************************************************************)
(* A model of dt_index_deploy.py: a Streamlit script that loads a table of *)
(* firm-year records once per process (st.cache_data), and on every user   *)
(* interaction re-runs from the top: sidebar controls, filtering, summary  *)
(* metrics, ranking table and the industry comparison chart.               *)
(*                                                                         *)
(* Encodings.  A text (company name, stock code, search box content) is a  *)
(* tuple of one-character strings.  The index column is kept in fixed      *)
(* point: the integer v stands for the score v / IndexScale.  A missing    *)
(* cell (NaN) of a string column is the string "NaN"; a year cell is <<>>  *)
(* when missing and <<y>> otherwise.  The strings "All", "UnknownIndustry" *)
(* and "Unknown" stand for the source's literals on lines 77, 43 and 44.   *)
(***************************************************************************)
EXTENDS Integers, Sequences, FiniteSets, TLC

VARIABLES files, cache, bodyRuns, staleHit, sortTies, year, industry, company, stock, out

vars == <<files, cache, bodyRuns, staleHit, sortTies, year, industry, company,
          stock, out>>

\* ------------------------------------------------------------------ bounds

\* Rows of the exhaustively enumerated tables.
MaxRows == 2
\* Rows of the generated tables (more than the ranking table's cut).
MaxBigRows == 22
\* Fixed-point denominator of the index column.
IndexScale == 2

\* ------------------------------------------------------- program constants

default_year == 2021
complete_until == 2021
TopRanks == 20
TopIndustries == 10

AllIndustries == "All"
UnknownIndustry == "UnknownIndustry"
UnknownCode == "Unknown"
NaN == "NaN"

possible_paths == 1..3

\* ------------------------------------------------------------------- texts

Digits == <<"0", "1", "2", "3", "4", "5", "6", "7", "8", "9">>

\* str(n) of a non-negative integer: its decimal digits.
RECURSIVE Str(_)
Str(n) == IF n < 10 THEN <<Digits[n + 1]>>
          ELSE Str(n \div 10) \o <<Digits[(n % 10) + 1]>>

\* Case folding of re.IGNORECASE, on the letters the model uses.
Lower(c) == CASE c = "A" -> "a"
              [] c = "B" -> "b"
              [] OTHER -> c

\* re.compile(pat) raises re.error: over the model's alphabet, exactly when
\* the pattern holds an opening parenthesis (none is ever closed).
CompileError(pat) == \E i \in 1..Len(pat) : pat[i] = "("

\* One pattern position against one character: "." matches any character,
\* anything else matches itself up to case.
CharMatch(p, c) == p = "." \/ Lower(p) = Lower(c)

\* pat.search(s) is not None, for a pattern of literals and dots.
Search(pat, s) ==
    \E i \in 1..(Len(s) + 1) :
        /\ i + Len(pat) - 1 <= Len(s)
        /\ \A j \in 1..Len(pat) : CharMatch(pat[j], s[i + j - 1])

\* Series.str.contains(pat, case=False): regex=True is the default.
StrContains(s, pat) == Search(pat, s)

\* ------------------------------------------------------------------- files

Missing == [kind |-> "missing", rows |-> <<>>]
Unreadable == [kind |-> "unreadable", rows |-> <<>>]
NoColumns == [kind |-> "nocolumns", rows |-> <<>>]
Sheet(rows) == [kind |-> "sheet", rows |-> rows]

RawRow(st, co, ind, y, ix, w) ==
    [stock |-> st, company |-> co, industryName |-> ind,
     industryCode |-> IF ind = NaN THEN NaN ELSE ind,
     year |-> y, index |-> ix, words |-> w]

\* fillna(value) of one cell.
fillna(cell, value) == IF cell = NaN THEN value ELSE cell

\* Lines 39-44 on one row.
NormalizeRow(r) ==
    [stock |-> Str(r.stock), company |-> r.company,
     industryName |-> fillna(r.industryName, UnknownIndustry),
     industryCode |-> fillna(r.industryCode, UnknownCode),
     year |-> r.year[1], index |-> r.index, words |-> r.words]

None == [ok |-> FALSE, rows |-> <<>>, msgs |-> <<>>]

FirstExisting(fs) ==
    LET found == {p \in possible_paths : fs[p].kind # "missing"}
    IN  IF found = {} THEN {} ELSE {CHOOSE p \in found : \A q \in found : p <= q}

Raises(f) ==
    \/ f.kind \in {"unreadable", "nocolumns"}
    \/ \E i \in 1..Len(f.rows) : f.rows[i].year = <<>>

\* A loader that goes on to the next candidate when one fails to load.
load_data_next_path(fs) ==
    LET good == {p \in possible_paths : fs[p].kind # "missing" /\ ~Raises(fs[p])}
    IN  IF good = {} THEN [None EXCEPT !.msgs = <<"error:not found">>]
        ELSE LET f == fs[CHOOSE p \in good : \A q \in good : p <= q]
             IN  [ok |-> TRUE,
                  rows |-> [i \in 1..Len(f.rows) |-> NormalizeRow(f.rows[i])],
                  msgs |-> <<"success">>]

\* The body of load_data: what it returns and the messages it emits.
load_data(fs) ==
    LET hit == FirstExisting(fs) IN
    IF hit = {} THEN [None EXCEPT !.msgs = <<"error:not found">>]
    ELSE LET f == fs[CHOOSE p \in hit : TRUE] IN
         IF f.kind = "unreadable"
           THEN [None EXCEPT !.msgs = <<"error:load failed", "error:traceback">>]
         ELSE IF Raises(f)
           THEN [None EXCEPT !.msgs = <<"success", "error:load failed",
                                        "error:traceback">>]
         ELSE [ok |-> TRUE,
               rows |-> [i \in 1..Len(f.rows) |-> NormalizeRow(f.rows[i])],
               msgs |-> <<"success">>]

\* ------------------------------------------------------------- dataframes

Min2(a, b) == IF a <= b THEN a ELSE b
Range(s) == {s[i] : i \in 1..Len(s)}

\* A view of the table is the sequence of its row labels (1..Len(df)) that
\* were kept, in table order: boolean-mask indexing keeps labels and order.
AllRows(df) == [i \in 1..Len(df) |-> i]

RECURSIVE SortedSeq(_)
SortedSeq(S) ==
    IF S = {} THEN <<>>
    ELSE LET m == CHOOSE x \in S : \A z \in S : x <= z
         IN  <<m>> \o SortedSeq(S \ {m})

\* Line 65: sorted(df['year'].unique()).
years(df) == SortedSeq({df[i].year : i \in 1..Len(df)})

\* Line 68, 1-based: the position of default_year, else the last position
\* (0 for an empty list, Python's -1).
default_index(ys) ==
    IF \E i \in 1..Len(ys) : ys[i] = default_year
      THEN CHOOSE i \in 1..Len(ys) : ys[i] = default_year
      ELSE Len(ys)

\* The order of Python's string comparison on the industry names in use;
\* the sentinel's CJK characters sort after every Latin name.
IndustryNames == <<"Agri", "Auto", "Bank", "Chem", "Coal", "Food", "Gas",
                   "Media", "Pharma", "Retail", "Steel", "Tech", "Textile">>
NameRank(n) == IF \E i \in 1..Len(IndustryNames) : IndustryNames[i] = n
                 THEN CHOOSE i \in 1..Len(IndustryNames) : IndustryNames[i] = n
                 ELSE Len(IndustryNames) + 1

NamesOf(df, V) == {df[V[k]].industryName : k \in 1..Len(V)}

RECURSIVE NamesByRank(_, _)
NamesByRank(S, ranks) ==
    IF ranks = <<>> THEN <<>>
    ELSE <<CHOOSE n \in S : NameRank(n) = Head(ranks)>>
         \o NamesByRank(S, Tail(ranks))

\* Line 77: ['All'] + sorted(df['industry name'].unique()).
industries(df) ==
    LET S == NamesOf(df, AllRows(df))
    IN  <<AllIndustries>> \o NamesByRank(S, SortedSeq({NameRank(n) : n \in S}))

\* ------------------------------------------------------------ filter engine

\* A year filter that keeps the later years too.
FilterYearFrom(df, V, y) == SelectSeq(V, LAMBDA id : df[id].year >= y)
\* Line 88.
FilterYear(df, V, y) == SelectSeq(V, LAMBDA id : df[id].year = y)
\* Line 91.
FilterIndustry(df, V, ind) == SelectSeq(V, LAMBDA id : df[id].industryName = ind)
\* Line 94.
FilterCompany(df, V, pat) == SelectSeq(V, LAMBDA id : StrContains(df[id].company, pat))
\* Line 97.
FilterStock(df, V, pat) == SelectSeq(V, LAMBDA id : StrContains(df[id].stock, pat))

\* An industry filter applied whatever is selected.
IndustryAlwaysApplies(ind) == TRUE
\* Lines 90, 93, 96: which criteria are applied.
IndustryApplies(ind) == ind # AllIndustries
TextApplies(pat) == pat # <<>>

\* Lines 87-97, when no pattern fails to compile.
filtered_df(df, y, ind, co, st) ==
    LET v1 == FilterYear(df, AllRows(df), y)
        v2 == IF IndustryApplies(ind) THEN FilterIndustry(df, v1, ind) ELSE v1
        v3 == IF TextApplies(co) THEN FilterCompany(df, v2, co) ELSE v2
    IN  IF TextApplies(st) THEN FilterStock(df, v3, st) ELSE v3

\* Lines 93-97: the first str.contains whose pattern does not compile raises.
FilterRaises(co, st) ==
    \/ TextApplies(co) /\ CompileError(co)
    \/ TextApplies(st) /\ CompileError(st)

\* -------------------------------------------------------------- aggregation

RECURSIVE SumIndex(_, _)
SumIndex(df, V) == IF V = <<>> THEN 0 ELSE df[Head(V)].index + SumIndex(df, Tail(V))

MaxIndex(df, V) == LET S == {df[V[k]].index : k \in 1..Len(V)}
                   IN  CHOOSE x \in S : \A z \in S : z <= x
MinIndex(df, V) == LET S == {df[V[k]].index : k \in 1..Len(V)}
                   IN  CHOOSE x \in S : \A z \in S : x <= z

\* f"{total / n:.1f}" in tenths, the mean being total / (n * IndexScale).
\* The float is rounded to the nearest tenth; an exact tie is broken to the
\* even digit when the mean is a binary fraction (odd multiples of 1/4),
\* and otherwise by which side of the tie the nearest double falls on,
\* which the model leaves open (up).
FormatMean(total, n, up) ==
    LET num == 10 * total
        den == n * IndexScale
        q   == num \div den
        r   == num % den
    IN  IF 2 * r < den THEN q
        ELSE IF 2 * r > den THEN q + 1
        ELSE IF (2 * q + 1) % 5 = 0 THEN (IF q % 2 = 0 THEN q ELSE q + 1)
        ELSE IF up THEN q + 1 ELSE q

\* The mean of view V is an exact tie between two tenths and no binary
\* fraction: FormatMean's result depends on up.
OpenTie(df, V) ==
    /\ V # <<>>
    /\ 2 * ((10 * SumIndex(df, V)) % (Len(V) * IndexScale)) = Len(V) * IndexScale
    /\ (2 * ((10 * SumIndex(df, V)) \div (Len(V) * IndexScale)) + 1) % 5 # 0

\* Rounding to the nearest integer instead.
IntOfRounded(v) == (2 * v + IndexScale) \div (2 * IndexScale)
\* int(x) of a non-negative score: truncation.
IntOf(v) == v \div IndexScale

Metric(label, value) == [label |-> label, value |-> value]

\* Lines 104-119: the metric tiles, in column order.
MetricTiles(df, V, up) ==
    IF V = <<>> THEN <<Metric("count", 0)>>
    ELSE <<Metric("count", Len(V)),
           Metric("mean", FormatMean(SumIndex(df, V), Len(V), up)),
           Metric("max", IntOf(MaxIndex(df, V))),
           Metric("min", IntOf(MinIndex(df, V)))>>

\* sort_values(ascending=False) with the default quicksort: rows of equal
\* key come out in an order the library does not specify; ties is the order
\* this build produces ("stable": table order, "reverse": the opposite).
Before(ka, kb, pa, pb, ties) ==
    \/ ka > kb
    \/ ka = kb /\ (IF ties = "stable" THEN pa < pb ELSE pa > pb)

\* The ascending sort.
ranked_ascending(df, V, ties) ==
    SortSeq(V, LAMBDA a, b : Before(df[b].index, df[a].index, a, b, ties))
\* Line 134.
ranked_df(df, V, ties) ==
    SortSeq(V, LAMBDA a, b : Before(df[a].index, df[b].index, a, b, ties))

\* head(n).
Head_n(s, n) == SubSeq(s, 1, Min2(n, Len(s)))

\* Lines 135-136: projection, head(20), the rank column.
display_df(df, ranked) ==
    LET top == Head_n(ranked, TopRanks)
    IN  [k \in 1..Len(top) |->
            [rank |-> k, id |-> top[k], stock |-> df[top[k]].stock,
             company |-> df[top[k]].company,
             industryName |-> df[top[k]].industryName,
             index |-> df[top[k]].index, words |-> df[top[k]].words]]

\* Line 142 up to the sort: one entry per industry of the year slice, in key
\* order, the mean kept as the fraction total / n.
GroupMeans(df, V) ==
    LET names == NamesByRank(NamesOf(df, V),
                             SortedSeq({NameRank(n) : n \in NamesOf(df, V)}))
    IN  [k \in 1..Len(names) |->
            LET G == FilterIndustry(df, V, names[k])
            IN  [name |-> names[k], total |-> SumIndex(df, G), n |-> Len(G),
                 pos |-> k]]

\* Line 142: the groups by mean, descending.
industry_avg(df, V, ties) ==
    SortSeq(GroupMeans(df, V),
            LAMBDA a, b : Before(a.total * b.n, b.total * a.n, a.pos, b.pos, ties))

\* No group excluded.
industry_avg_keep_all(avg) == avg
\* Line 146.
industry_avg_non_unknown(avg) == SelectSeq(avg, LAMBDA g : g.name # UnknownIndustry)

\* Line 144.
EnoughGroups(avg) == Len(avg) > 1

\* ------------------------------------------------------------------ script

AllControls == {"year", "industry", "company", "stock"}

\* What one run of the script has put on the page.
Blank ==
    [loaded |-> FALSE, msgs |-> <<>>, title |-> FALSE, controls |-> {},
     selected_year |-> <<>>, yearWarning |-> FALSE, error |-> "none",
     hasView |-> FALSE, view |-> <<>>, metrics |-> <<>>, warning |-> FALSE,
     histogram |-> FALSE, table |-> <<>>, chart |-> <<>>, info |-> FALSE]

Widgets(y, ind, co, st) == [year |-> y, industry |-> ind, company |-> co, stock |-> st]

\* A fresh session: every widget at its default.
FreshWidgets == Widgets(<<>>, AllIndustries, <<>>, <<>>)

\* Lines 139-160: the chart, <<>> when none is drawn.
Bar(g) == [name |-> g.name, total |-> g.total, n |-> g.n]
IndustryChart(avg) ==
    LET shown == industry_avg_non_unknown(avg)
    IN  IF EnoughGroups(avg) /\ Len(shown) > 0
          THEN [k \in 1..Min2(TopIndustries, Len(shown)) |-> Bar(shown[k])]
          ELSE <<>>
\* Line 160: the informational message.
IndustryInfo(avg) == EnoughGroups(avg) /\ Len(industry_avg_non_unknown(avg)) = 0

\* The comparison computed from the filtered view.
year_data_of_view(df, V, y) == V
\* Line 141: the table the comparison is computed from.
year_data(df, V, y) == FilterYear(df, AllRows(df), y)

\* Lines 100-160, once the view is filtered.
MainContent(page, df, V, y, ties, up) ==
    LET avg == industry_avg(df, year_data(df, V, y), ties)
    IN  [page EXCEPT
            !.hasView = TRUE, !.view = V,
            !.metrics = MetricTiles(df, V, up),
            !.warning = (V = <<>>),
            !.histogram = (V # <<>>),
            !.table = IF V = <<>> THEN <<>> ELSE display_df(df, ranked_df(df, V, ties)),
            !.chart = IndustryChart(avg),
            !.info = IndustryInfo(avg)]

\* Lines 54-160: one run of the script on the loader's result and the
\* session's widget values (a year of <<>>: the selectbox takes its default).
Script(entry, w, ties, up) ==
    IF ~entry.ok THEN [Blank EXCEPT !.msgs = entry.msgs]
    ELSE
    LET df  == entry.rows
        ys  == years(df)
        sel == IF w.year # <<>> THEN w.year
               ELSE IF ys = <<>> THEN <<>> ELSE <<ys[default_index(ys)]>>
        top == [Blank EXCEPT !.loaded = TRUE, !.msgs = entry.msgs, !.title = TRUE]
    IN  IF sel = <<>>
          \* No year to offer: selected_year is None and the comparison on
          \* line 73 raises.
          THEN [top EXCEPT !.controls = {"year"}, !.error = "TypeError"]
        ELSE
        LET page == [top EXCEPT !.controls = AllControls, !.selected_year = sel,
                                !.yearWarning = (sel[1] > complete_until)]
        IN  IF FilterRaises(w.company, w.stock)
              THEN [page EXCEPT !.error = "re.error"]
              ELSE MainContent(page, df,
                               filtered_df(df, sel[1], w.industry, w.company, w.stock),
                               sel[1], ties, up)

\* ------------------------------------------------------------------- inputs

Txt1(a) == <<a>>
Txt2(a, b) == <<a, b>>

CompanyInputs == {<<>>, Txt2("a", "B"), Txt1("."), Txt1("(")}
StockInputs == {<<>>, Txt1("1"), Txt1(".")}

\* Two row profiles: company name, raw stock code, index, word count.
Profiles == {[company |-> Txt2("A", "b"), stock |-> 1, index |-> 3, words |-> 7],
             [company |-> Txt2("b", "."), stock |-> 12, index |-> 4, words |-> 9]}

SmallRows ==
    {RawRow(p.stock, p.company, ind, <<y>>, p.index, p.words) :
        p \in Profiles, ind \in {NaN, "Bank"}, y \in {default_year, default_year + 1}}

SmallTables == UNION {[1..n -> SmallRows] : n \in 0..MaxRows}

\* Generated tables of one year: n rows over k industries (one of them
\* missing), the index stepping by stride modulo IndexMod; with stride 1
\* the rows without industry score above all others.
IndexMod == 7
BigRow(i, k, stride) ==
    RawRow(i, IF i % 2 = 1 THEN Txt2("A", "b") ELSE Txt2("b", "."),
           IF i % k = 0 THEN NaN ELSE IndustryNames[i % k],
           <<default_year>>,
           IF i % k = 0 /\ stride = 1 THEN IndexMod ELSE (i * stride) % IndexMod,
           i)
BigTable(n, k, stride) == [i \in 1..n |-> BigRow(i, k, stride)]
BigTables ==
    {BigTable(n, k, stride) :
        n \in TopRanks..MaxBigRows, k \in {TopIndustries + 1, TopIndustries + 2},
        stride \in {1, 3}}

\* What a candidate path may hold in the file-system specification.
OkSheet ==
    Sheet(<<RawRow(1, Txt2("A", "b"), "Bank", <<default_year>>, 3, 7),
            RawRow(12, Txt2("b", "."), NaN, <<default_year + 1>>, 4, 9)>>)
NanYearSheet ==
    Sheet(<<RawRow(1, Txt2("A", "b"), "Bank", <<>>, 3, 7)>>)
FileContents == {Missing, Unreadable, NoColumns, OkSheet, NanYearSheet, Sheet(<<>>)}

\* ------------------------------------------------------------------ actions

EmptyCache == [filled |-> FALSE, entry |-> None]

\* A cache that keeps only successful loads.
CacheHitOnSuccess(c) == c.filled /\ c.entry.ok
\* st.cache_data on a function without arguments: one entry, kept for the
\* life of the process.
CacheHit(c) == c.filled

\* One execution of the script in the session whose widgets hold w.
Run(w) ==
    LET entry == IF CacheHit(cache) THEN cache.entry ELSE load_data(files)
    IN  /\ cache' = [filled |-> TRUE, entry |-> entry]
        /\ bodyRuns' = IF CacheHit(cache) THEN bodyRuns ELSE bodyRuns + 1
        /\ staleHit' = (staleHit \/ (CacheHit(cache) /\ load_data(files) # cache.entry))
        /\ LET page == Script(entry, w, sortTies, TRUE)
           IN  out' \in {page} \cup
                   IF page.hasView /\ OpenTie(entry.rows, page.view)
                     THEN {Script(entry, w, sortTies, FALSE)} ELSE {}
        /\ year' = out'.selected_year
        /\ industry' = w.industry
        /\ company' = w.company
        /\ stock' = w.stock
        /\ UNCHANGED <<files, sortTies>>

\* The page is opened or reloaded in the browser.
OpenSession == Run(FreshWidgets)

SelectYear ==
    /\ "year" \in out.controls
    /\ \E y \in {r.year : r \in Range(cache.entry.rows)} \ Range(year) :
          Run(Widgets(<<y>>, industry, company, stock))

SelectIndustry ==
    /\ "industry" \in out.controls
    /\ \E ind \in Range(industries(cache.entry.rows)) \ {industry} :
          Run(Widgets(year, ind, company, stock))

TypeCompany ==
    /\ "company" \in out.controls
    /\ \E c \in CompanyInputs \ {company} : Run(Widgets(year, industry, c, stock))

TypeStock ==
    /\ "stock" \in out.controls
    /\ \E s \in StockInputs \ {stock} : Run(Widgets(year, industry, company, s))

\* The environment replaces, creates or deletes one candidate file.
FileChange ==
    /\ \E p \in possible_paths : \E f \in FileContents \ {files[p]} :
          files' = [files EXCEPT ![p] = f]
    /\ UNCHANGED <<cache, bodyRuns, staleHit, sortTies, year, industry, company,
                   stock, out>>

ProcessStart ==
    /\ cache = EmptyCache
    /\ bodyRuns = 0
    /\ staleHit = FALSE
    /\ sortTies \in {"stable", "reverse"}
    /\ year = <<>>
    /\ industry = AllIndustries
    /\ company = <<>>
    /\ stock = <<>>
    /\ out = Blank

Init == ProcessStart /\ files \in [possible_paths -> FileContents]

InitUI ==
    /\ ProcessStart
    /\ \E t \in SmallTables \cup BigTables :
          files = [p \in possible_paths |-> IF p = 1 THEN Sheet(t) ELSE Missing]

NextUI == OpenSession \/ SelectYear \/ SelectIndustry \/ TypeCompany \/ TypeStock

Next == NextUI \/ FileChange

Spec == Init /\ [][Next]_vars

SpecUI == InitUI /\ [][NextUI]_vars

\* ============================================================== properties

\* The table the script works on, once a load has succeeded.
Table == cache.entry.rows
Rendered == out.hasView
SelectedYear == year[1]
YearRows == {id \in 1..Len(Table) : Table[id].year = SelectedYear}
Ascending(S) == SortedSeq(S)

\* s holds pat as a literal substring, up to case.
LiteralContains(s, pat) ==
    \E i \in 1..(Len(s) + 1) :
        /\ i + Len(pat) - 1 <= Len(s)
        /\ \A j \in 1..Len(pat) : Lower(pat[j]) = Lower(s[i + j - 1])

\* C1: whenever the four controls are on the page, the filtered view exists
\* and holds exactly the records whose year is the selected one, whose
\* industry is the selected one unless 'all' is selected, and whose company
\* name and stock code hold the two search texts as case-insensitive
\* literal substrings unless the text is empty.
C1_ViewIsLiteralConjunction ==
    out.controls = AllControls =>
        /\ Rendered
        /\ Range(out.view) =
              {id \in YearRows :
                  /\ industry = AllIndustries \/ Table[id].industryName = industry
                  /\ company = <<>> \/ LiteralContains(Table[id].company, company)
                  /\ stock = <<>> \/ LiteralContains(Table[id].stock, stock)}

\* C2: on the loaded table, filtering by a year with the other criteria at
\* their sentinels keeps only that year's records, two years' subsets are
\* disjoint, and the subsets of all years together are the whole table; the
\* view on the page under those criteria is the selected year's subset.
C2_YearPartition ==
    cache.filled /\ cache.entry.ok =>
        LET ys == {Table[i].year : i \in 1..Len(Table)}
            part(y) == Range(filtered_df(Table, y, AllIndustries, <<>>, <<>>))
        IN  /\ \A y \in ys : \A id \in part(y) : Table[id].year = y
            /\ \A y1, y2 \in ys : y1 # y2 => part(y1) \cap part(y2) = {}
            /\ UNION {part(y) : y \in ys} = 1..Len(Table)
            /\ (Rendered /\ industry = AllIndustries /\ company = <<>> /\ stock = <<>>)
                  => out.view = Ascending(YearRows)

C2_Witness ==
    /\ Rendered /\ industry = AllIndustries /\ company = <<>> /\ stock = <<>>
    /\ Cardinality({Table[i].year : i \in 1..Len(Table)}) = 2
    /\ SelectedYear > default_year
    /\ out.view # <<>>

\* C3: for a non-empty view the ranking table has min(20, |V|) rows, ranked
\* 1..N in row order, with the index non-increasing; rank 1 holds the
\* maximum of the view; the rows are distinct records of the view and none
\* has a smaller index than a record left out.
C3_Ranking ==
    (Rendered /\ out.view # <<>>) =>
        LET t == out.table
            shown == {t[k].id : k \in 1..Len(t)}
        IN  /\ Len(t) = Min2(TopRanks, Len(out.view))
            /\ \A k \in 1..Len(t) : t[k].rank = k
            /\ \A k \in 1..(Len(t) - 1) : t[k].index >= t[k + 1].index
            /\ \A id \in Range(out.view) : Table[id].index <= t[1].index
            /\ shown \subseteq Range(out.view)
            /\ Cardinality(shown) = Len(t)
            /\ \A k \in 1..Len(t) :
                  /\ t[k].index = Table[t[k].id].index
                  /\ t[k].stock = Table[t[k].id].stock
                  /\ t[k].company = Table[t[k].id].company
            /\ \A id \in Range(out.view) \ shown :
                  \A k \in 1..Len(t) : Table[id].index <= t[k].index

\* More records than ranks, with a tie across the cut.
C3_Witness ==
    /\ Rendered
    /\ Len(out.view) > TopRanks
    /\ Len(out.table) = TopRanks
    /\ \E id \in Range(out.view) \ {out.table[k].id : k \in 1..Len(out.table)} :
          Table[id].index = out.table[TopRanks].index
    /\ out.table[1].index > out.table[TopRanks].index

\* The industry groups of the selected year in the full table, and the mean
\* of one group as the fraction GroupTotal / GroupSize.
YearGroups == {Table[id].industryName : id \in YearRows}
GroupRows(g) == {id \in YearRows : Table[id].industryName = g}
RECURSIVE SetTotal(_)
SetTotal(S) == IF S = {} THEN 0
               ELSE LET id == CHOOSE x \in S : TRUE
                    IN  Table[id].index + SetTotal(S \ {id})
GroupTotal(g) == SetTotal(GroupRows(g))
GroupSize(g) == Cardinality(GroupRows(g))

ChartOk ==
    LET c == out.chart
        named == YearGroups \ {UnknownIndustry}
        bars == {c[k].name : k \in 1..Len(c)}
    IN  /\ bars \subseteq named
        /\ Cardinality(bars) = Len(c)
        /\ Len(c) = Min2(TopIndustries, Cardinality(named))
        /\ \A k \in 1..Len(c) :
              c[k].total * GroupSize(c[k].name) = GroupTotal(c[k].name) * c[k].n
        /\ \A k \in 1..(Len(c) - 1) : c[k].total * c[k + 1].n >= c[k + 1].total * c[k].n
        /\ \A g \in named \ bars : \A k \in 1..Len(c) :
              c[k].total * GroupSize(g) >= GroupTotal(g) * c[k].n

C5_MessageOrChart ==
    Rendered =>
        IF Cardinality(YearGroups) < 2 \/ YearGroups \subseteq {UnknownIndustry}
          THEN out.info /\ out.chart = <<>>
          ELSE ~out.info /\ out.chart # <<>>

\* The comparison section as the script draws it with both search texts empty.
ChartWithoutTexts ==
    Script(cache.entry, Widgets(year, industry, <<>>, <<>>), sortTies, TRUE).chart

\* C7 as stated: an empty view shows the warning, no error and no metric,
\* histogram or ranking table, and the comparison of the year unchanged.
C7_EmptyViewNoMetric ==
    (Rendered /\ out.view = <<>>) =>
        /\ out.warning /\ out.error = "none"
        /\ out.metrics = <<>> /\ ~out.histogram /\ out.table = <<>>
        /\ out.chart = ChartWithoutTexts

\* C7 amended: an empty view shows the warning, no error, the row-count
\* metric at 0 and no other metric, no histogram and no ranking table, and
\* the comparison of the year as with the search texts empty.
C7_EmptyViewCountOnly ==
    (Rendered /\ out.view = <<>>) =>
        /\ out.warning /\ out.error = "none"
        /\ out.metrics = <<Metric("count", 0)>>
        /\ ~out.histogram /\ out.table = <<>>
        /\ out.chart = ChartWithoutTexts

C7_Witness ==
    /\ Rendered /\ out.view = <<>> /\ out.warning
    /\ YearRows # {}
    /\ company # <<>>
    /\ out.chart # <<>>

\* C9: the view on the page is the one obtained by applying, besides the
\* year, only the criteria that are not at their sentinel: an industry of
\* 'all' and an empty search text filter nothing, in every combination.
C9_SentinelsAreNoOps ==
    Rendered =>
        out.view = Ascending(
            {id \in YearRows :
                /\ industry # AllIndustries => Table[id].industryName = industry
                /\ company # <<>> => StrContains(Table[id].company, company)
                /\ stock # <<>> => StrContains(Table[id].stock, stock)})

C9_Witness ==
    /\ Rendered
    /\ industry = AllIndustries /\ company = <<>> /\ stock # <<>>
    /\ out.view # <<>>
    /\ Len(out.view) < Cardinality(YearRows)
    /\ Cardinality(YearGroups) > 1

Tile(label) == {out.metrics[k].value : k \in {j \in 1..Len(out.metrics) : out.metrics[j].label = label}}
ViewIndexes == {Table[id].index : id \in Range(out.view)}
ViewTotal == SetTotal(Range(out.view))
Abs(x) == IF x < 0 THEN -x ELSE x

\* C10: the count tile is the number of records of the view; for a
\* non-empty view the mean tile is within half a tenth of the arithmetic
\* mean, and the max and min tiles are the integer parts of the largest and
\* the smallest index of the view.
C10_SummaryTiles ==
    Rendered =>
        /\ Tile("count") = {Len(out.view)}
        /\ out.view # <<>> =>
              /\ \E m \in Tile("mean") :
                    /\ Tile("mean") = {m}
                    /\ 2 * Abs(10 * ViewTotal - m * Len(out.view) * IndexScale)
                          <= Len(out.view) * IndexScale
              /\ \E hi \in ViewIndexes :
                    /\ \A v \in ViewIndexes : v <= hi
                    /\ \E t \in Tile("max") :
                          Tile("max") = {t} /\ t * IndexScale <= hi /\ hi < (t + 1) * IndexScale
              /\ \E lo \in ViewIndexes :
                    /\ \A v \in ViewIndexes : lo <= v
                    /\ \E t \in Tile("min") :
                          Tile("min") = {t} /\ t * IndexScale <= lo /\ lo < (t + 1) * IndexScale

\* A view whose largest index has a fractional part and whose mean is not a
\* whole number of tenths.
C10_Witness ==
    /\ Rendered /\ Len(out.view) > 1
    /\ \E hi \in ViewIndexes : (\A v \in ViewIndexes : v <= hi) /\ hi % IndexScale # 0
    /\ (10 * ViewTotal) % (Len(out.view) * IndexScale) # 0

\* No candidate exists, or the first that exists cannot be read or normalized.
LoadFails(fs) ==
    \/ \A p \in possible_paths : fs[p].kind = "missing"
    \/ \E p \in possible_paths :
          /\ fs[p].kind # "missing"
          /\ \A q \in 1..(p - 1) : fs[q].kind = "missing"
          /\ \/ fs[p].kind # "sheet"
             \/ \E i \in 1..Len(fs[p].rows) : fs[p].rows[i].year = <<>>

ErrorShown(o) == \E k \in 1..Len(o.msgs) : o.msgs[k] \in {"error:not found", "error:load failed"}

NothingRendered(o) ==
    /\ ~o.title /\ o.controls = {} /\ ~o.yearWarning
    /\ ~o.hasView /\ o.metrics = <<>> /\ ~o.warning /\ ~o.histogram
    /\ o.table = <<>> /\ o.chart = <<>> /\ ~o.info

\* C6: the run that executes load_data on a file system where no candidate
\* exists, or where the first existing one fails to load, gets an absent
\* result and shows an error; and every run on an absent result shows the
\* error, nothing else of the page, and raises nothing.
C6_FailedLoadRendersNothing ==
    /\ [][(~cache.filled /\ cache'.filled /\ LoadFails(files))
             => (~cache'.entry.ok /\ ErrorShown(out'))]_vars
    /\ [](cache.filled /\ ~cache.entry.ok
             => ErrorShown(out) /\ NothingRendered(out) /\ out.error = "none")

\* A load whose file was read and then failed in normalization: the success
\* message is followed by the error, and nothing else is on the page.
C6_Witness ==
    /\ cache.filled /\ ~cache.entry.ok /\ bodyRuns = 1
    /\ out.msgs = <<"success", "error:load failed", "error:traceback">>
    /\ NothingRendered(out)

\* C8: load_data's body runs at most once; once the cache holds a result no
\* step changes it or runs the body again, and every later run shows that
\* result (the table, or the failure), whatever the files have become.
C8_LoadedOnce ==
    /\ [](bodyRuns <= 1)
    /\ [](cache.filled => bodyRuns = 1)
    /\ [][cache.filled =>
             /\ cache' = cache
             /\ bodyRuns' = bodyRuns
             /\ out'.loaded = cache.entry.ok
             /\ out'.msgs = cache.entry.msgs]_vars

\* A run served a failed load from the cache although the files would now load.
C8_Witness ==
    /\ staleHit
    /\ ~cache.entry.ok /\ ~out.loaded
    /\ load_data(files).ok
====
